---- MODULE Spec2Model ----
(***************************************************************************)
(* Model of the pay_records repository: the original program               *)
(* (pay_records.py) and its two refactorings (pay_records_refactor.py,     *)
(* pay_records_refactor_2.py).  One run of one program is modelled: the    *)
(* input file is opened, its rows are aggregated one by one into a map     *)
(* from employee id to pay record, and the map is exported.                *)
(*                                                                         *)
(* Decimal arithmetic is exact fixed point: hours, rates, incomes and      *)
(* bracket bounds are whole units; marginal rates, fixed amounts, taxes    *)
(* and net amounts are in units of 1/Scale (four decimal places, the       *)
(* precision of the bracket tables).                                       *)
(***************************************************************************)
EXTENDS Integers, Sequences, FiniteSets, TLC

VARIABLES prog, fileExists, input, pos, records, order, pc, err, reports,
          outputOpened, output, calc

vars == <<prog, fileExists, input, pos, records, order, pc, err, reports,
          outputOpened, output, calc>>

\* Longest input file (data rows after the header) that is explored.
MaxRows == 3

\* How far on either side of each bracket bound incomes are tried when
\* calculate_tax is called on its own.
Spread == 2

\* Number of 1/Scale units in one whole currency unit.
Scale == 10000

Original == "pay_records"
Refactor == "pay_records_refactor"
Refactor2 == "pay_records_refactor_2"

Programs == {Original, Refactor, Refactor2}

----------------------------------------------------------------------------
(* Text fields and their conversions.                                      *)

\* Decimal(text): the value of a numeric text; other texts do not convert.
DecimalValue ==
  [s \in {"-1", "0", "5", "10", "30", "40", "45", "100", "1000", "36000"} |->
     CASE s = "-1" -> 0 - 1
       [] s = "0" -> 0
       [] s = "5" -> 5
       [] s = "10" -> 10
       [] s = "30" -> 30
       [] s = "40" -> 40
       [] s = "45" -> 45
       [] s = "100" -> 100
       [] s = "1000" -> 1000
       [] s = "36000" -> 36000]

IsDecimal(s) == s \in DOMAIN DecimalValue

\* int(text) for the employee id column.
IntValue == [s \in {"1", "2"} |-> IF s = "1" THEN 1 ELSE 2]

\* [Decimal(x) for x in field.split(",")]: a field is kept as the sequence
\* of its comma-separated parts.
AllDecimal(field) == \A i \in 1..Len(field) : IsDecimal(field[i])

DecimalList(field) == [i \in 1..Len(field) |-> DecimalValue[field[i]]]

\* The data rows an input file may contain, as csv.reader yields them: a
\* sequence of columns [id, hours, rates, visa, year to date], possibly cut
\* short.
Rows ==
  { <<"1", <<"10", "5">>, <<"40", "45">>, "", "">>,
    <<"1", <<"100">>, <<"30">>, "417", "36000">>,
    <<"2", <<"100">>, <<"30">>, "417", "36000">>,
    <<"2", <<"10">>, <<"40">>>>,
    <<"1", <<"10">>>>,
    <<"1", <<"0">>, <<"40">>, "", "">>,
    <<"2", <<"-1">>, <<"40">>, "", "">>,
    <<"2", <<"x">>, <<"40">>, "", "">>,
    <<"2", <<"10">>, <<"40">>, "500", "1000">>,
    <<"2", <<"10">>, <<"40">>, "462", "">>,
    <<"1", <<"10">>, <<"40">>, "417">>,
    <<"2", <<"10", "5">>, <<"40">>, "", "">>,
    <<"1", <<"5">>, <<"45">>, "462", "1000">> }

RECURSIVE InputsOfLength(_)
InputsOfLength(n) ==
  IF n = 0 THEN {<<>>}
  ELSE {Append(f, r) : f \in InputsOfLength(n - 1), r \in Rows}

Inputs == UNION {InputsOfLength(n) : n \in 0..MaxRows}

----------------------------------------------------------------------------
(* Tax brackets and the tax calculation.                                   *)

\* Decimal('infinity') as an upper bound.
Infinity == 0 - 1

TaxBracket(lower, upper, rates, fixed) ==
  [lower_bound |-> lower, upper_bound |-> upper, rates |-> rates,
   fixed_amount |-> fixed]

ResidentBrackets ==
  << TaxBracket(0, 72, 1900, 1900),
     TaxBracket(72, 361, 2342, 32130),
     TaxBracket(361, 932, 3477, 442476),
     TaxBracket(932, 1380, 3450, 417311),
     TaxBracket(1380, 3111, 3900, 1038657),
     TaxBracket(3111, Infinity, 4700, 3527880) >>

WorkingHolidayBrackets ==
  << TaxBracket(0, 37000, 1500, 0),
     TaxBracket(37000, 90000, 3200, 0),
     TaxBracket(90000, 180000, 3700, 0),
     TaxBracket(180000, Infinity, 4500, 0) >>

\* The bracket test with the upper bound included.
InBracketClosed(bracket, income) ==
  /\ bracket.lower_bound <= income
  /\ \/ bracket.upper_bound = Infinity
     \/ income <= bracket.upper_bound

\* bracket.lower_bound <= income < bracket.upper_bound
InBracket(bracket, income) ==
  /\ bracket.lower_bound <= income
  /\ \/ bracket.upper_bound = Infinity
     \/ income < bracket.upper_bound

Matching(brackets, income) ==
  {i \in 1..Len(brackets) : InBracket(brackets[i], income)}

HasBracket(brackets, income) == Matching(brackets, income) # {}

\* The bracket the for loop stops at: the first one that matches.
FirstBracket(brackets, income) ==
  brackets[CHOOSE i \in Matching(brackets, income) :
             \A j \in Matching(brackets, income) : i <= j]

\* calculate_tax without the subtraction of the bracket's fixed amount.
CalculateTaxNoFixedAmount(brackets, income) ==
  FirstBracket(brackets, income).rates * income

\* TaxCalculator.calculate_tax, where a bracket matches (it raises
\* ValueError otherwise).  Result in 1/Scale units.
CalculateTax(brackets, income) ==
  FirstBracket(brackets, income).rates * income
    - FirstBracket(brackets, income).fixed_amount

----------------------------------------------------------------------------
(* Pay records.                                                            *)

ResidentPayRecord(id, hours, rates) ==
  [kind |-> "Resident", id |-> id, hours |-> hours, rates |-> rates,
   visa |-> "", year_to_date |-> 0]

WorkingHolidayPayRecord(id, hours, rates, visa, ytd) ==
  [kind |-> "WorkingHoliday", id |-> id, hours |-> hours, rates |-> rates,
   visa |-> visa, year_to_date |-> ytd]

Brackets(rec) ==
  IF rec.kind = "Resident" THEN ResidentBrackets ELSE WorkingHolidayBrackets

Min(a, b) == IF a <= b THEN a ELSE b

\* sum(hour * rate for hour, rate in zip(hours, rates)): zip stops at the
\* shorter sequence.
RECURSIVE ZipSum(_, _, _)
ZipSum(hours, rates, n) ==
  IF n = 0 THEN 0 ELSE ZipSum(hours, rates, n - 1) + hours[n] * rates[n]

Gross(rec) == ZipSum(rec.hours, rec.rates, Min(Len(rec.hours), Len(rec.rates)))

\* Original program: the year_to_date property of a working-holiday record.
YearToDateOriginal(rec) == rec.year_to_date + Gross(rec)

\* Original program: the amount each tax property compares with the bounds
\* (gross for a resident, the year_to_date property for a working holiday).
BracketBaseOriginal(rec) ==
  IF rec.kind = "Resident" THEN Gross(rec) ELSE YearToDateOriginal(rec)

\* Original program: the two tax properties (None where no bracket
\* matches), in 1/Scale units.
TaxOriginal(rec) ==
  IF rec.kind = "Resident"
  THEN FirstBracket(ResidentBrackets, Gross(rec)).rates * Gross(rec)
         - FirstBracket(ResidentBrackets, Gross(rec)).fixed_amount
  ELSE FirstBracket(WorkingHolidayBrackets, YearToDateOriginal(rec)).rates
         * Gross(rec)

\* Refactorings: the income property of the two record classes.
IncomeRefactored(rec) ==
  IF rec.kind = "Resident" THEN Gross(rec) ELSE rec.year_to_date + Gross(rec)

\* Refactorings: the year_to_date property of a working-holiday record.
YearToDateRefactored(rec) == rec.year_to_date

\* Refactorings: PayRecord.tax, in 1/Scale units.
TaxRefactored(rec) == CalculateTax(Brackets(rec), IncomeRefactored(rec))

\* The income property (gross in the original program).
Income(p, rec) == IF p = Original THEN Gross(rec) ELSE IncomeRefactored(rec)

\* The year_to_date property of a working-holiday record.
YearToDate(p, rec) ==
  IF p = Original THEN YearToDateOriginal(rec) ELSE YearToDateRefactored(rec)

\* Whether the tax property yields a value (the original returns None and
\* the refactorings raise when no bracket matches).
TaxDefined(p, rec) ==
  HasBracket(Brackets(rec),
             IF p = Original THEN BracketBaseOriginal(rec)
             ELSE IncomeRefactored(rec))

\* The tax property, in 1/Scale units.
Tax(p, rec) == IF p = Original THEN TaxOriginal(rec) ELSE TaxRefactored(rec)

\* The net property, income (gross) - tax, in 1/Scale units.
Net(p, rec) == Income(p, rec) * Scale - Tax(p, rec)

\* add_hours inserting the new hours in front of the old ones.
AddHoursInFront(old, hours) == hours \o old

\* add_hours / add_rates: list.extend.
AddHours(old, hours) == old \o hours

AddRates(old, rates) == old \o rates

----------------------------------------------------------------------------
(* One iteration of the row loop: the outcome for one row, given the map   *)
(* (records, with its keys in insertion order) built so far.               *)

Ok(recs, ord) == [err |-> "none", records |-> recs, order |-> ord]

Raise(e, recs, ord) == [err |-> e, records |-> recs, order |-> ord]

Put(recs, id, rec) == [k \in DOMAIN recs \cup {id} |-> IF k = id THEN rec ELSE recs[k]]

\* The update of an existing key done by building the record anew from the
\* merged hours and rates, which loses its variant fields.
ExtendRebuilding(recs, id, hours, rates) ==
  Put(recs, id, ResidentPayRecord(id, AddHours(recs[id].hours, hours),
                                  AddRates(recs[id].rates, rates)))

\* records[employee_id].add_hours(hours); records[employee_id].add_rates(rates)
Extend(recs, id, hours, rates) ==
  Put(recs, id, [recs[id] EXCEPT !.hours = AddHours(@, hours),
                                 !.rates = AddRates(@, rates)])

\* create_pay_record of the original program.
CreateOriginal(id, hours, rates, visa, ytd) ==
  IF visa # ""
  THEN WorkingHolidayPayRecord(id, hours, rates, visa, ytd)
  ELSE ResidentPayRecord(id, hours, rates)

\* The loop body of main in the original program.
StepOriginal(recs, ord, row) ==
  IF Len(row) < 2 THEN Raise("IndexError", recs, ord)
  ELSE IF ~AllDecimal(row[2]) THEN Raise("InvalidOperation", recs, ord)
  ELSE IF Len(row) < 3 THEN Raise("IndexError", recs, ord)
  ELSE IF ~AllDecimal(row[3]) THEN Raise("InvalidOperation", recs, ord)
  ELSE IF Len(row) < 5 THEN Raise("IndexError", recs, ord)
  ELSE IF row[5] # "" /\ ~IsDecimal(row[5])
       THEN Raise("InvalidOperation", recs, ord)
  ELSE LET id == IntValue[row[1]]
           hours == DecimalList(row[2])
           rates == DecimalList(row[3])
           visa == row[4]
           ytd == IF row[5] # "" THEN DecimalValue[row[5]] ELSE 0
       IN IF id \notin DOMAIN recs
          THEN Ok(Put(recs, id, CreateOriginal(id, hours, rates, visa, ytd)),
                  Append(ord, id))
          ELSE Ok(Extend(recs, id, hours, rates), ord)

\* any(hour <= 0 for hour in hours)
AnyNonPositive(values) == \E i \in 1..Len(values) : values[i] <= 0

\* create_pay_record of the first refactoring, past its two checks; visa is
\* "" where the code passes None.
CreateRefactor(id, hours, rates, visa, ytd) ==
  IF visa # ""
  THEN WorkingHolidayPayRecord(id, hours, rates, visa, ytd)
  ELSE ResidentPayRecord(id, hours, rates)

\* import_pay_records' column check followed by the loop body of main in
\* the first refactoring.
StepRefactor(recs, ord, row) ==
  IF Len(row) < 3 THEN Raise("MalformedRow", recs, ord)
  ELSE IF ~AllDecimal(row[2]) \/ ~AllDecimal(row[3])
       THEN Raise("InvalidOperation", recs, ord)
  ELSE IF Len(row) >= 5 /\ row[5] # "" /\ ~IsDecimal(row[5])
       THEN Raise("InvalidOperation", recs, ord)
  ELSE LET id == IntValue[row[1]]
           hours == DecimalList(row[2])
           rates == DecimalList(row[3])
           \* an IndexError on row[3] or row[4] resets both to None
           visa == IF Len(row) >= 5 /\ row[4] \in {"417", "462"}
                   THEN row[4] ELSE ""
           ytd == IF Len(row) >= 5 /\ row[5] # ""
                  THEN DecimalValue[row[5]] ELSE 0
       IN IF id \notin DOMAIN recs
          THEN IF AnyNonPositive(hours) \/ AnyNonPositive(rates)
               THEN Raise("InvalidInputValue", recs, ord)
               ELSE Ok(Put(recs, id, CreateRefactor(id, hours, rates, visa, ytd)),
                       Append(ord, id))
          ELSE Ok(Extend(recs, id, hours, rates), ord)

\* PayRecordFactoryImpl.create, called with the columns after the third
\* (at most two of them; the fields are "" where a column is absent).
FactoryCreate(id, hours, rates, visa, ytd) ==
  IF visa # "" /\ ytd # ""
  THEN WorkingHolidayPayRecord(id, hours, rates, visa, DecimalValue[ytd])
  ELSE ResidentPayRecord(id, hours, rates)

\* CsvPayRecordIO.read_pay_records' column check followed by the loop body
\* of PaySlipGenerator._read_records.
StepRefactor2(recs, ord, row) ==
  IF Len(row) < 3 THEN Raise("MalformedRow", recs, ord)
  ELSE IF ~AllDecimal(row[2]) \/ ~AllDecimal(row[3])
       THEN Raise("InvalidOperation", recs, ord)
  ELSE LET id == IntValue[row[1]]
           hours == DecimalList(row[2])
           rates == DecimalList(row[3])
           visa == IF Len(row) >= 4 THEN row[4] ELSE ""
           ytd == IF Len(row) >= 5 THEN row[5] ELSE ""
       IN IF id \notin DOMAIN recs
          THEN IF Len(row) > 5 THEN Raise("TypeError", recs, ord)
               ELSE IF visa # "" /\ ytd # "" /\ ~IsDecimal(ytd)
               THEN Raise("InvalidOperation", recs, ord)
               ELSE Ok(Put(recs, id, FactoryCreate(id, hours, rates, visa, ytd)),
                       Append(ord, id))
          ELSE Ok(Extend(recs, id, hours, rates), ord)

Step(p, recs, ord, row) ==
  IF p = Original THEN StepOriginal(recs, ord, row)
  ELSE IF p = Refactor THEN StepRefactor(recs, ord, row)
  ELSE StepRefactor2(recs, ord, row)

----------------------------------------------------------------------------
(* Export.                                                                 *)

\* The row export_to_csv / write_pay_records writes for one record; the
\* yeartodate column is <<>> where the code writes ''.
ExportRow(p, rec) ==
  [id |-> rec.id, income |-> Income(p, rec), tax |-> Tax(p, rec),
   net |-> Net(p, rec), visa |-> rec.visa,
   yeartodate |-> IF rec.kind = "WorkingHoliday"
                  THEN <<YearToDate(p, rec)>> ELSE <<>>]

\* Positions in the key order whose record cannot be exported: its tax
\* raises (refactorings) or is None, so that net raises (original).
Failing(p, recs, ord) == {i \in 1..Len(ord) : ~TaxDefined(p, recs[ord[i]])}

\* How many rows are written before the export stops.
Written(p, recs, ord) ==
  IF Failing(p, recs, ord) = {} THEN Len(ord)
  ELSE (CHOOSE i \in Failing(p, recs, ord) :
          \A j \in Failing(p, recs, ord) : i <= j) - 1

ExportedRows(p, recs, ord) ==
  [i \in 1..Written(p, recs, ord) |-> ExportRow(p, recs[ord[i]])]

----------------------------------------------------------------------------
(* The run.                                                                *)

\* No direct call of calculate_tax is in progress (the state of calc during
\* a run of a program).
NoCall == [brackets |-> "none", income |-> 0, state |-> "idle", value |-> 0]

Init ==
  /\ prog \in Programs
  /\ fileExists \in BOOLEAN
  /\ input \in (IF fileExists THEN Inputs ELSE {<<>>})
  /\ pos = 1
  /\ records = <<>>
  /\ order = <<>>
  /\ pc = "start"
  /\ err = "none"
  /\ reports = 0
  /\ outputOpened = FALSE
  /\ output = <<>>
  /\ calc = NoCall

\* open(file_name, "r") and next(reader) for the header.  The original lets
\* FileNotFoundError escape; the refactorings print it and yield no rows.
OpenInput ==
  /\ pc = "start"
  /\ IF fileExists
     THEN /\ pc' = "reading"
          /\ UNCHANGED <<err, reports>>
     ELSE IF prog = Original
     THEN /\ pc' = "crashed"
          /\ err' = "FileNotFoundError"
          /\ UNCHANGED reports
     ELSE /\ pc' = "export"
          /\ reports' = reports + 1
          /\ UNCHANGED err
  /\ UNCHANGED <<prog, fileExists, input, pos, records, order,
                 outputOpened, output, calc>>

\* One iteration of the row loop; an exception ends the run.
ReadRow ==
  /\ pc = "reading"
  /\ pos <= Len(input)
  /\ LET r == Step(prog, records, order, input[pos])
     IN IF r.err = "none"
        THEN /\ records' = r.records
             /\ order' = r.order
             /\ pos' = pos + 1
             /\ UNCHANGED <<pc, err>>
        ELSE /\ pc' = "crashed"
             /\ err' = r.err
             /\ UNCHANGED <<records, order, pos>>
  /\ UNCHANGED <<prog, fileExists, input, reports, outputOpened, output,
                 calc>>

\* The reader is exhausted.
EndOfInput ==
  /\ pc = "reading"
  /\ pos > Len(input)
  /\ pc' = "export"
  /\ UNCHANGED <<prog, fileExists, input, pos, records, order, err, reports,
                 outputOpened, output, calc>>

\* open(output, 'w'), the header and one row per record in key order.
ExportRecords ==
  /\ pc = "export"
  /\ outputOpened' = TRUE
  /\ output' = ExportedRows(prog, records, order)
  /\ IF Failing(prog, records, order) = {}
     THEN /\ pc' = "done"
          /\ UNCHANGED err
     ELSE /\ pc' = "crashed"
          /\ err' = IF prog = Original THEN "TypeError" ELSE "NoTaxBracket"
  /\ UNCHANGED <<prog, fileExists, input, pos, records, order, reports,
                 calc>>

Next == OpenInput \/ ReadRow \/ EndOfInput \/ ExportRecords

Spec == Init /\ [][Next]_vars

----------------------------------------------------------------------------
(* calculate_tax called on its own, on either bracket table.               *)

TableNames == {"Resident", "WorkingHoliday"}

\* The TAX_BRACKETS list a TaxCalculator is constructed with.
TableOf(name) ==
  IF name = "Resident" THEN ResidentBrackets ELSE WorkingHolidayBrackets

\* The finite bounds that occur in a table.
BoundsOf(brackets) ==
  ( {brackets[i].lower_bound : i \in 1..Len(brackets)}
      \cup {brackets[i].upper_bound : i \in 1..Len(brackets)} ) \ {Infinity}

Bounds == BoundsOf(ResidentBrackets) \cup BoundsOf(WorkingHolidayBrackets)

\* The incomes calculate_tax is called with: around every bound, and so
\* also below zero.
ProbeIncomes == {b + d : b \in Bounds, d \in (0 - Spread)..Spread}

\* TaxCalculator(TAX_BRACKETS).calculate_tax(income) is about to be called.
TaxInit ==
  /\ prog = Refactor2
  /\ fileExists = FALSE
  /\ input = <<>>
  /\ pos = 1
  /\ records = <<>>
  /\ order = <<>>
  /\ pc = "start"
  /\ err = "none"
  /\ reports = 0
  /\ outputOpened = FALSE
  /\ output = <<>>
  /\ calc \in [brackets : TableNames, income : ProbeIncomes,
               state : {"called"}, value : {0}]

\* The call: it returns the tax of the first matching bracket, or raises
\* ValueError when the loop ends without a match.
CalculateTaxCall ==
  /\ calc.state = "called"
  /\ calc' = IF HasBracket(TableOf(calc.brackets), calc.income)
             THEN [calc EXCEPT !.state = "returned",
                               !.value = CalculateTax(TableOf(calc.brackets),
                                                      calc.income)]
             ELSE [calc EXCEPT !.state = "raised"]
  /\ UNCHANGED <<prog, fileExists, input, pos, records, order, pc, err,
                 reports, outputOpened, output>>

TaxNext == CalculateTaxCall

TaxSpec == TaxInit /\ [][TaxNext]_vars

----------------------------------------------------------------------------
(* Properties.                                                             *)

\* Sum of hours[i] * rates[i] over two sequences of equal length.
RECURSIVE Dot(_, _)
Dot(hours, rates) ==
  IF hours = <<>> \/ rates = <<>> THEN 0
  ELSE Head(hours) * Head(rates) + Dot(Tail(hours), Tail(rates))

WorkingHolidayIds == {id \in DOMAIN records : records[id].kind = "WorkingHoliday"}

ResidentIds == {id \in DOMAIN records : records[id].kind = "Resident"}

\* C1: in every program the tax of a working-holiday record is the marginal
\* rate of the band containing prior year-to-date + current gross, times
\* the current gross only.
C1_WorkingHolidayTaxOnCurrentGross ==
  \A id \in WorkingHolidayIds :
    LET rec == records[id]
        gross == Dot(rec.hours, rec.rates)
        ytd == rec.year_to_date + gross
    IN (Len(rec.hours) = Len(rec.rates) /\ ytd >= 0) =>
         \E i \in 1..Len(WorkingHolidayBrackets) :
           /\ InBracket(WorkingHolidayBrackets[i], ytd)
           /\ Tax(prog, rec) = WorkingHolidayBrackets[i].rates * gross

\* C2: in every program the net of a working-holiday record is the current
\* gross minus the tax; the prior year-to-date is not part of it.
C2_WorkingHolidayNetOnCurrentGross ==
  \A id \in WorkingHolidayIds :
    LET rec == records[id]
        gross == Dot(rec.hours, rec.rates)
    IN (Len(rec.hours) = Len(rec.rates) /\ rec.year_to_date + gross >= 0) =>
         Net(prog, rec) = gross * Scale - Tax(prog, rec)

\* The general part of C3 for one resident record: income is the sum of
\* products, tax is rate * income - offset of the first band containing the
\* income, net is income - tax.
ResidentAmounts(rec) ==
  LET income == Dot(rec.hours, rec.rates)
  IN /\ Income(prog, rec) = income
     /\ \A i \in 1..Len(ResidentBrackets) :
          LET b == ResidentBrackets[i]
          IN ( /\ b.lower_bound <= income
               /\ (b.upper_bound = Infinity \/ income < b.upper_bound)
               /\ \A j \in 1..(i - 1) :
                    ~ ( /\ ResidentBrackets[j].lower_bound <= income
                        /\ income < ResidentBrackets[j].upper_bound ) )
             => /\ Tax(prog, rec) = b.rates * income - b.fixed_amount
                /\ Net(prog, rec)
                     = income * Scale - (b.rates * income - b.fixed_amount)

IsResidentExample(rec) == rec.hours = <<10, 5>> /\ rec.rates = <<40, 45>>

\* C3 (amended): a resident record with as many hours as rates has income
\* sum(hours[i]*rates[i]), tax rate * income - offset of the first band
\* containing the income, and net income - tax; hours [10,5], rates [40,45]
\* give income 625, tax 173.0649, net 451.9351.
C3_ResidentAmounts ==
  \A id \in ResidentIds :
    LET rec == records[id]
    IN Len(rec.hours) = Len(rec.rates) =>
         /\ ResidentAmounts(rec)
         /\ IsResidentExample(rec) =>
              /\ Income(prog, rec) = 625
              /\ Tax(prog, rec) = 1730649
              /\ Net(prog, rec) = 4519351

\* C3 as stated: the same, with tax 173.3649 and net 451.6351 for the
\* example.
C3_AsStated ==
  \A id \in ResidentIds :
    LET rec == records[id]
    IN Len(rec.hours) = Len(rec.rates) =>
         /\ ResidentAmounts(rec)
         /\ IsResidentExample(rec) =>
              /\ Income(prog, rec) = 625
              /\ Tax(prog, rec) = 1733649
              /\ Net(prog, rec) = 4516351

\* A resident record holding exactly the example's hours and rates.
C3_Witness ==
  \E id \in ResidentIds : IsResidentExample(records[id])

----------------------------------------------------------------------------
(* Rows of the input seen from the claims.                                 *)

RowId(row) == IntValue[row[1]]

\* The row now under the reader, when there is one.
AtRow == pc = "reading" /\ pos <= Len(input)

\* A row with at least three columns and numeric hours and rates, one of
\* which is <= 0.
NonPositiveRow(row) ==
  /\ Len(row) >= 3
  /\ AllDecimal(row[2])
  /\ AllDecimal(row[3])
  /\ \/ \E i \in 1..Len(row[2]) : DecimalValue[row[2][i]] <= 0
     \/ \E i \in 1..Len(row[3]) : DecimalValue[row[3][i]] <= 0

\* A row-level defect: too few columns, or a non-numeric or non-positive
\* hour or rate.
Defective(row) ==
  \/ Len(row) < 3
  \/ ~AllDecimal(row[2])
  \/ ~AllDecimal(row[3])
  \/ NonPositiveRow(row)

\* Concatenation, in input order, of column col (2: hours, 3: rates) of the
\* rows among the first n of the input that carry id (and, with soundOnly,
\* have no defect).
RECURSIVE Merged(_, _, _, _)
Merged(id, col, n, soundOnly) ==
  IF n = 0 THEN <<>>
  ELSE Merged(id, col, n - 1, soundOnly)
         \o (IF RowId(input[n]) = id /\ (soundOnly => ~Defective(input[n]))
             THEN DecimalList(input[n][col]) ELSE <<>>)

Sound(row) == ~Defective(row)

\* The first of the rows read so far that carries id.
FirstRow(id) ==
  input[CHOOSE j \in 1..(pos - 1) :
          /\ RowId(input[j]) = id
          /\ \A k \in 1..(j - 1) : RowId(input[k]) # id]

\* C4: in both refactorings a row with an hour or rate <= 0 is rejected as
\* an invalid input value and leaves the map as it was, whether or not its
\* id is already a key.
C4_NonPositiveRowRejected ==
  [][(prog \in {Refactor, Refactor2} /\ AtRow /\ NonPositiveRow(input[pos]))
       => (err' = "InvalidInputValue" /\ records' = records)]_vars

\* C5: a row with fewer than three columns is rejected as malformed, never
\* with an index error, and leaves the map as it was.
C5_ShortRowRejectedAsMalformed ==
  [][(AtRow /\ Len(input[pos]) < 3)
       => (err' = "MalformedRow" /\ records' = records /\ order' = order)]_vars

\* C6: after any sequence of accepted rows the keys of the map are the ids
\* of those rows, and each record's hours (rates) are the concatenation, in
\* input order, of the hours (rates) of exactly the rows carrying its id.
C6_MergeIsConcatenation ==
  /\ DOMAIN records = {RowId(input[j]) : j \in 1..(pos - 1)}
  /\ \A id \in DOMAIN records :
       /\ records[id].hours = Merged(id, 2, pos - 1, FALSE)
       /\ records[id].rates = Merged(id, 3, pos - 1, FALSE)

\* Three rows have been accepted, the first and third for one id with a row
\* of another id between them.
C6_Witness ==
  /\ pos = 4
  /\ RowId(input[1]) = RowId(input[3])
  /\ RowId(input[1]) # RowId(input[2])
  /\ Len(records[RowId(input[1])].hours) >= 2
  /\ input[1][2] # input[3][2]

\* C7: a record is a working-holiday record exactly when the first row for
\* its id carries visa '417' or '462' and, in pay_records_refactor_2, a
\* non-empty year-to-date field; otherwise it is a resident record.
C7_VariantDecision ==
  \A id \in DOMAIN records :
    LET row == FirstRow(id)
    IN records[id].kind = "WorkingHoliday"
         <=> /\ Len(row) >= 4
             /\ row[4] \in {"417", "462"}
             /\ prog = Refactor2 => (Len(row) >= 5 /\ row[5] # "")

\* C8: for a working-holiday record the income property and the exported
\* year_to_date field are equal, both being prior year-to-date + current
\* gross.
C8_IncomeEqualsYearToDate ==
  /\ \A id \in WorkingHolidayIds :
       LET rec == records[id]
       IN /\ Income(prog, rec) = YearToDate(prog, rec)
          /\ Income(prog, rec) = rec.year_to_date + Gross(rec)
  /\ \A i \in 1..Len(output) :
       output[i].yeartodate # <<>> =>
         /\ output[i].yeartodate[1] = output[i].income
         /\ output[i].income
              = records[output[i].id].year_to_date + Gross(records[output[i].id])

\* C9: in the refactorings a defective row is confined to itself: when the
\* run has ended, the map is the one built from the input without its
\* defective rows.
C9_DefectConfinedToRow ==
  (prog \in {Refactor, Refactor2} /\ fileExists /\ pc \in {"done", "crashed"}) =>
    /\ DOMAIN records
         = {RowId(input[j]) : j \in {k \in 1..Len(input) : Sound(input[k])}}
    /\ \A id \in DOMAIN records :
         /\ records[id].hours = Merged(id, 2, Len(input), TRUE)
         /\ records[id].rates = Merged(id, 3, Len(input), TRUE)

\* C10: when the input file is unavailable the condition is reported once
\* and the output file is never opened or written.
C10_NoOutputWithoutInput ==
  ~fileExists => (outputOpened = FALSE /\ output = <<>> /\ reports <= 1)

\* C11: in each bracket table consecutive bands share their bound, the
\* first starts at 0 and the last ends at infinity, so that exactly one band
\* contains each income >= 0 and none an income < 0; calculate_tax returns
\* the tax of that band for every income >= 0 and raises exactly when the
\* income is < 0.
C11_BracketsPartitionIncomes ==
  calc.brackets \in TableNames =>
    LET T == TableOf(calc.brackets)
        x == calc.income
        Containing == {i \in 1..Len(T) :
                         /\ T[i].lower_bound <= x
                         /\ (T[i].upper_bound = Infinity \/ x < T[i].upper_bound)}
    IN /\ T[1].lower_bound = 0
       /\ T[Len(T)].upper_bound = Infinity
       /\ \A i \in 1..(Len(T) - 1) :
            /\ T[i].upper_bound = T[i + 1].lower_bound
            /\ T[i].lower_bound < T[i].upper_bound
       /\ x >= 0 => Cardinality(Containing) = 1
       /\ x < 0 => Containing = {}
       /\ calc.state = "raised" => x < 0
       /\ calc.state = "returned" =>
            /\ x >= 0
            /\ \E i \in Containing :
                 calc.value = T[i].rates * x - T[i].fixed_amount

\* calculate_tax has returned for an income that is the bound shared by two
\* consecutive bands.
C11_Witness ==
  /\ calc.state = "returned"
  /\ \E i \in 1..(Len(TableOf(calc.brackets)) - 1) :
       TableOf(calc.brackets)[i].upper_bound = calc.income

\* C12: a row whose id is already a key changes nothing except appending
\* its hours and rates to that id's record: the keys, their order, the
\* record's id, variant, visa and prior year-to-date and every other record
\* stay as they were, whatever visa and year-to-date the row carries.  No
\* step removes a key, and a key is added only for the id of the row being
\* read.
C12_AppendChangesOnlyHoursAndRates ==
  [][ /\ DOMAIN records \subseteq DOMAIN records'
      /\ \A k \in DOMAIN records' \ DOMAIN records :
           AtRow /\ k = RowId(input[pos])
      /\ (AtRow /\ RowId(input[pos]) \in DOMAIN records) =>
           LET row == input[pos]
               id == RowId(row)
           IN /\ DOMAIN records' = DOMAIN records
              /\ order' = order
              /\ \A k \in DOMAIN records \ {id} : records'[k] = records[k]
              /\ records'[id].id = records[id].id
              /\ records'[id].kind = records[id].kind
              /\ records'[id].visa = records[id].visa
              /\ records'[id].year_to_date = records[id].year_to_date
              /\ pos' = pos + 1 =>
                   /\ records'[id].hours
                        = records[id].hours \o DecimalList(row[2])
                   /\ records'[id].rates
                        = records[id].rates \o DecimalList(row[3])
              /\ pos' = pos => records' = records ]_vars

\* A working-holiday record has been extended by a later row that carries
\* another visa and another year-to-date than the record's.
C12_Witness ==
  \E j \in 2..(pos - 1) :
    LET row == input[j]
        id == RowId(row)
    IN /\ \E k \in 1..(j - 1) : RowId(input[k]) = id
       /\ Len(row) >= 5
       /\ records[id].kind = "WorkingHoliday"
       /\ row[4] # records[id].visa
       /\ row[5] # ""
       /\ DecimalValue[row[5]] # records[id].year_to_date

\* C13: after each accepted row every record has as many hours as rates.
C13_HoursAndRatesSameLength ==
  \A id \in DOMAIN records :
    Len(records[id].hours) = Len(records[id].rates)

====
